---------------------------- MODULE Spec2Model ----------------------------
(***************************************************************************)
(* Three greedy algorithms of the repository, each run by its own driver:  *)
(*   problema_seleccion_actividades.py  (Actividad, seleccion_actividades_ *)
(*                                       voraz, verificar_sin_traslape)    *)
(*   problema_cambio.py                 (dar_cambio_voraz)                 *)
(*   problema_mochila_fraccionaria.py   (Articulo, mochila_fraccionaria_   *)
(*                                       voraz)                            *)
(* One run executes one of the three programs (variable programa).  Each   *)
(* function is executed statement by statement: the call (sort and         *)
(* initialisation of the locals), one action per loop iteration, and the   *)
(* return.  The display field nombre of Actividad and Articulo is not      *)
(* read by any algorithm and is left out.                                  *)
(*                                                                         *)
(* Numbers.  The times, amounts and denominations are Python ints.  The    *)
(* weights, the values and the capacity of the knapsack are Python         *)
(* numbers, ints or floats, as the caller passes them; an operation on two *)
(* ints is exact, an operation with a float operand converts the other     *)
(* operand to float, and / always gives a float.  A float is an IEEE 754   *)
(* binary64 number: the record [clase, neg, man, exp] of magnitude         *)
(* man * 2^exp, man a natural of 53 bits, or of fewer bits with            *)
(* exp = -1074 (subnormal); clase tells zero and infinity from the finite  *)
(* numbers.  Every float operation is the exact result rounded to nearest, *)
(* ties to even, with underflow to the subnormals and to zero and overflow *)
(* to infinity.  Naturals too large for a machine integer are sequences of *)
(* digits in base 2^13, least significant first.  The arguments are        *)
(* finite, so that no NaN arises.                                          *)
(***************************************************************************)
EXTENDS Integers, Sequences, FiniteSets, TLC

\* ------------------------------------------------------------------ bounds
\* times of the activities range over -MaxNeg .. TiempoMax
MaxNeg == 2
TiempoMax == 2
\* at most MaxActs activities are constructed before the selection is called
MaxActs == 3
\* amounts to change range over -1 .. MaxCantidad
MaxCantidad == 100
\* denomination lists: the default list in any order, and every list of at most
\* MaxMonedas denominations drawn from 1 .. MaxDenominacion
MaxMonedas == 3
MaxDenominacion == 4
\* articles have an int weight in 1 .. MaxPeso or PesoGrande (a weight large
\* enough for a fraction of it to lose a bit when it is multiplied back) or a
\* float weight, PesoFlotante or one of 1 .. MaxPeso divided by DivisorDecimal;
\* an int value in 0 .. MaxValor or a float value, one of 1 .. MaxValor or one
\* of these divided by DivisorDecimal; the knapsack is called with at most
\* MaxArts articles and a capacity that is an int in -1 .. MaxCapacidad, the
\* float of one of 1 .. MaxCapacidad divided by DivisorDecimal, or the
\* smallest positive float
MaxPeso == 3
PesoGrande == 25
PesoFlotante == 10
MaxValor == 2
MaxArts == 2
MaxCapacidad == 7
DivisorDecimal == 10

VARIABLES
    programa,              \* which driver runs: "actividades", "cambio", "mochila"
    pc,                    \* "entrada", "bucle", "fin", "error"
    excepcion,             \* "" or the exception that ended the program
    k,                     \* position of the for loop in the sorted list
    \* --- problema_seleccion_actividades.py
    llamada,               \* arguments of the last Actividad(...) call, <<>> if none
    actividades,           \* the activities constructed so far (the input list)
    actividades_ordenadas,
    seleccionadas,
    ultimo_fin,
    \* --- problema_cambio.py
    cantidad,              \* argument of dar_cambio_voraz
    monedas,               \* argument of dar_cambio_voraz
    monedas_ordenadas,
    resultado,             \* dict: a function from the recorded denominations
    cantidad_restante,
    \* --- problema_mochila_fraccionaria.py
    articulos,             \* argument of mochila_fraccionaria_voraz
    capacidad,             \* argument of mochila_fraccionaria_voraz, a number
    articulos_ordenados,
    mochila,               \* list of [articulo, fraccion]
    capacidad_restante,    \* a number
    valor_total            \* a float

varsAct == <<llamada, actividades, actividades_ordenadas, seleccionadas, ultimo_fin>>
varsCambio == <<cantidad, monedas, monedas_ordenadas, resultado, cantidad_restante>>
varsMochila == <<articulos, capacidad, articulos_ordenados, mochila,
                 capacidad_restante, valor_total>>
vars == <<programa, pc, excepcion, k, varsAct, varsCambio, varsMochila>>

\* ------------------------------------------------- generic helpers
Tiempos == (0 - MaxNeg) .. TiempoMax

\* sum of f[i] over the indices in S
RECURSIVE SumaSobre(_, _)
SumaSobre(f, S) ==
    IF S = {} THEN 0
    ELSE LET x == CHOOSE y \in S : TRUE IN f[x] + SumaSobre(f, S \ {x})

\* ------------------------------------------------- naturals of any size
\* digits in base 2^BitsCifra, least significant first, no leading zero digit
BitsCifra == 13
Base == 2^BitsCifra

\* digit i of a, 0 beyond its length
Cifra(a, i) == IF 1 <= i /\ i <= Len(a) THEN a[i] ELSE 0

RECURSIVE NatNormal(_)
NatNormal(a) ==
    IF a = <<>> THEN a
    ELSE IF a[Len(a)] = 0 THEN NatNormal(SubSeq(a, 1, Len(a) - 1))
    ELSE a

RECURSIVE NatDeEntero(_)
NatDeEntero(n) == IF n = 0 THEN <<>> ELSE <<n % Base>> \o NatDeEntero(n \div Base)

RECURSIVE NatSumaAcarreo(_, _, _)
NatSumaAcarreo(a, b, c) ==
    IF a = <<>> /\ b = <<>> THEN NatDeEntero(c)
    ELSE LET t == Cifra(a, 1) + Cifra(b, 1) + c
         IN <<t % Base>> \o NatSumaAcarreo(IF a = <<>> THEN a ELSE Tail(a),
                                           IF b = <<>> THEN b ELSE Tail(b),
                                           t \div Base)

\* a + b
NatSuma(a, b) == NatSumaAcarreo(a, b, 0)

RECURSIVE NatRestaPrestamo(_, _, _)
NatRestaPrestamo(a, b, c) ==
    IF a = <<>> THEN <<>>
    ELSE LET t == Head(a) - Cifra(b, 1) - c
         IN <<IF t < 0 THEN t + Base ELSE t>>
            \o NatRestaPrestamo(Tail(a), IF b = <<>> THEN b ELSE Tail(b),
                                IF t < 0 THEN 1 ELSE 0)

\* a - b for a >= b
NatResta(a, b) == NatNormal(NatRestaPrestamo(a, b, 0))

\* a * n for a machine integer 0 <= n < 2^17
RECURSIVE NatPorAcarreo(_, _, _)
NatPorAcarreo(a, n, c) ==
    IF a = <<>> THEN NatDeEntero(c)
    ELSE LET t == Head(a) * n + c
         IN <<t % Base>> \o NatPorAcarreo(Tail(a), n, t \div Base)

NatPorCifra(a, n) == IF n = 0 THEN <<>> ELSE NatPorAcarreo(a, n, 0)

\* a * b
RECURSIVE NatPor(_, _)
NatPor(a, b) ==
    IF a = <<>> \/ b = <<>> THEN <<>>
    ELSE LET alto == NatPor(a, Tail(b))
         IN NatSuma(NatPorCifra(a, Head(b)),
                    IF alto = <<>> THEN alto ELSE <<0>> \o alto)

\* -1, 0, 1 as a < b, a = b, a > b
RECURSIVE NatCmpDesde(_, _, _)
NatCmpDesde(a, b, i) ==
    IF i = 0 THEN 0
    ELSE IF a[i] < b[i] THEN -1
    ELSE IF a[i] > b[i] THEN 1
    ELSE NatCmpDesde(a, b, i - 1)

NatCmp(a, b) ==
    IF Len(a) < Len(b) THEN -1
    ELSE IF Len(a) > Len(b) THEN 1
    ELSE NatCmpDesde(a, b, Len(a))

RECURSIVE BitsDeEntero(_)
BitsDeEntero(n) == IF n = 0 THEN 0 ELSE 1 + BitsDeEntero(n \div 2)

\* number of bits of a
NatBits(a) ==
    IF a = <<>> THEN 0 ELSE BitsCifra * (Len(a) - 1) + BitsDeEntero(a[Len(a)])

\* a * 2^s
NatIzq(a, s) ==
    IF a = <<>> THEN a
    ELSE [i \in 1..(s \div BitsCifra) |-> 0] \o NatPorCifra(a, 2^(s % BitsCifra))

\* a \div 2^s
NatDer(a, s) ==
    LET q == s \div BitsCifra
        r == 2^(s % BitsCifra)
    IN NatNormal([i \in 1..(Len(a) - q) |->
                    (Cifra(a, q + i) \div r) + (Cifra(a, q + i + 1) % r) * (Base \div r)])

\* bit i of a (bit 0 is the least significant)
NatBit(a, i) == (Cifra(a, (i \div BitsCifra) + 1) \div 2^(i % BitsCifra)) % 2

\* a % 2^s # 0
NatBajoNoCero(a, s) ==
    \E j \in 1..Len(a) :
        \/ j <= s \div BitsCifra /\ a[j] # 0
        \/ j = (s \div BitsCifra) + 1 /\ a[j] % 2^(s % BitsCifra) # 0

\* r \div b for r < b * Base and b with its top digit >= Base / 2: the quotient
\* is at most two below the estimate from the top digits
NatCifraCociente(r, b) ==
    LET n == Len(b)
        estimada == (Cifra(r, n + 1) * Base + Cifra(r, n)) \div b[n]
        c == IF estimada > Base - 1 THEN Base - 1 ELSE estimada
        cabe(x) == NatCmp(NatPorCifra(b, x), r) <= 0
    IN IF cabe(c) THEN c ELSE IF cabe(c - 1) THEN c - 1 ELSE c - 2

\* long division of the digits i .. 1 of a by b, r the remainder so far
RECURSIVE NatEntreDesde(_, _, _, _)
NatEntreDesde(a, b, i, r) ==
    IF i = 0 THEN [q |-> <<>>, r |-> r]
    ELSE LET r2 == NatNormal(<<a[i]>> \o r)
             c == NatCifraCociente(r2, b)
             bajo == NatEntreDesde(a, b, i - 1, NatResta(r2, NatPorCifra(b, c)))
         IN [q |-> Append(bajo.q, c), r |-> bajo.r]

\* quotient and remainder of a by b # 0; both are first multiplied by the
\* power of two that brings the top digit of b to Base / 2 or more
NatEntre(a, b) ==
    LET s == BitsCifra - BitsDeEntero(b[Len(b)])
        a2 == NatIzq(a, s)
        d == NatEntreDesde(a2, NatIzq(b, s), Len(a2), <<>>)
    IN [q |-> NatNormal(d.q), r |-> NatDer(d.r, s)]

\* ------------------------------------------------- Python float (binary64)
\* bits of the significand
BitsMantisa == 53
\* exponent of the last bit of the subnormal numbers: 5e-324 = 2^ExpMin
ExpMin == -1074
\* largest exponent of the last bit: the largest float is (2^53 - 1) * 2^ExpMax
ExpMax == 971

\* 0.0 and -0.0
CeroCon(neg) == [clase |-> "cero", neg |-> neg, man |-> <<>>, exp |-> 0]
Cero == CeroCon(FALSE)

\* inf and -inf
Infinito(neg) == [clase |-> "inf", neg |-> neg, man |-> <<>>, exp |-> 0]

\* the float nearest to n * 2^e (ties to even) with the sign neg; pegajoso: the
\* exact magnitude is above n * 2^e by less than 2^e (n then has at least
\* BitsMantisa + 2 bits).  Results below 2^(ExpMin + BitsMantisa - 1) keep
\* fewer bits (subnormal) or are zero, results of 2^(ExpMax + BitsMantisa) or
\* more are infinite.
Redondear(neg, n, e, pegajoso) ==
    LET largo == NatBits(n)
        ideal == e + largo - BitsMantisa
        ultimo == IF ideal < ExpMin THEN ExpMin ELSE ideal
        d == ultimo - e
        q == NatDer(n, d)
        guarda == NatBit(n, d - 1) = 1
        resto == pegajoso \/ NatBajoNoCero(n, d - 1)
        arriba == guarda /\ (resto \/ NatBit(q, 0) = 1)
        q1 == IF arriba THEN NatSuma(q, <<1>>) ELSE q
        man == IF d <= 0 THEN NatIzq(n, 0 - d)
               ELSE IF NatBits(q1) > BitsMantisa THEN NatDer(q1, 1)
               ELSE q1
        exp == IF d > 0 /\ NatBits(q1) > BitsMantisa THEN ultimo + 1 ELSE ultimo
    IN IF man = <<>> THEN CeroCon(neg)
       ELSE IF exp > ExpMax THEN Infinito(neg)
       ELSE [clase |-> "finito", neg |-> neg, man |-> man, exp |-> exp]

\* float(n) of an int n
DobleDeEntero(n) == Redondear(n < 0, NatDeEntero(IF n < 0 THEN 0 - n ELSE n), 0, FALSE)

\* 1.0
Uno == DobleDeEntero(1)

\* -x
DobleNegar(x) == [x EXCEPT !.neg = ~x.neg]

\* -1, 0, 1 as |x| < |y|, |x| = |y|, |x| > |y|
MagnitudCmp(x, y) ==
    LET rango(z) == IF z.clase = "cero" THEN 0 ELSE IF z.clase = "finito" THEN 1 ELSE 2
        alto(z) == NatBits(z.man) + z.exp
        e == IF x.exp < y.exp THEN x.exp ELSE y.exp
    IN IF rango(x) # rango(y) THEN (IF rango(x) < rango(y) THEN -1 ELSE 1)
       ELSE IF x.clase # "finito" THEN 0
       ELSE IF alto(x) # alto(y) THEN (IF alto(x) < alto(y) THEN -1 ELSE 1)
       ELSE NatCmp(NatIzq(x.man, x.exp - e), NatIzq(y.man, y.exp - e))

\* -1, 0, 1 as x < y, x == y, x > y
DobleCmp(x, y) ==
    LET signo(z) == IF z.clase = "cero" THEN 0 ELSE IF z.neg THEN -1 ELSE 1
    IN IF signo(x) # signo(y) THEN (IF signo(x) < signo(y) THEN -1 ELSE 1)
       ELSE IF signo(x) = 1 THEN MagnitudCmp(x, y)
       ELSE IF signo(x) = -1 THEN MagnitudCmp(y, x)
       ELSE 0

\* x + y (not inf + -inf).  The operand of larger magnitude has the larger
\* exponent; an operand more than BitsMantisa + 2 binary places below it only
\* tells on which side of it the sum lies.
DobleSuma(x, y) ==
    IF x.clase = "inf" THEN x
    ELSE IF y.clase = "inf" THEN y
    ELSE IF x.clase = "cero" /\ y.clase = "cero" THEN CeroCon(x.neg /\ y.neg)
    ELSE IF x.clase = "cero" THEN y
    ELSE IF y.clase = "cero" THEN x
    ELSE LET grande == IF MagnitudCmp(x, y) >= 0 THEN x ELSE y
             chico == IF MagnitudCmp(x, y) >= 0 THEN y ELSE x
             e == chico.exp
             a == NatIzq(grande.man, grande.exp - e)
             b == chico.man
         IN IF grande.exp - chico.exp > BitsMantisa + 2
            THEN Redondear(grande.neg,
                           IF x.neg = y.neg THEN NatIzq(grande.man, 2)
                           ELSE NatResta(NatIzq(grande.man, 2), <<1>>),
                           grande.exp - 2, TRUE)
            ELSE IF x.neg = y.neg THEN Redondear(grande.neg, NatSuma(a, b), e, FALSE)
            ELSE IF NatCmp(a, b) = 0 THEN Cero
            ELSE Redondear(grande.neg, NatResta(a, b), e, FALSE)

\* x - y
DobleResta(x, y) == DobleSuma(x, DobleNegar(y))

\* x * y of two finite floats
DoblePor(x, y) ==
    IF x.clase = "cero" \/ y.clase = "cero" THEN CeroCon(x.neg # y.neg)
    ELSE Redondear(x.neg # y.neg, NatPor(x.man, y.man), x.exp + y.exp, FALSE)

\* x / y of two finite floats, y # 0: the quotient of the significands is
\* computed to BitsMantisa + 2 bits or more, the rest is the sticky bit
DobleEntre(x, y) ==
    IF x.clase = "cero" THEN CeroCon(x.neg # y.neg)
    ELSE LET falta == BitsMantisa + 2 + NatBits(y.man) - NatBits(x.man)
             escala == IF falta > 0 THEN falta ELSE 0
             d == NatEntre(NatIzq(x.man, escala), y.man)
         IN Redondear(x.neg # y.neg, d.q, x.exp - y.exp - escala, d.r # <<>>)

\* ------------------------------------------------- Python numbers
\* a number is an int, [ent |-> n], or a float
Entero(n) == [ent |-> n]
EsEntero(x) == "ent" \in DOMAIN x

\* the float operand an int becomes in an operation with a float
Flotar(x) == IF EsEntero(x) THEN DobleDeEntero(x.ent) ELSE x

\* x + y, x - y, x * y: int if both are ints, float otherwise
NumSuma(x, y) ==
    IF EsEntero(x) /\ EsEntero(y) THEN Entero(x.ent + y.ent)
    ELSE DobleSuma(Flotar(x), Flotar(y))

NumResta(x, y) ==
    IF EsEntero(x) /\ EsEntero(y) THEN Entero(x.ent - y.ent)
    ELSE DobleResta(Flotar(x), Flotar(y))

NumPor(x, y) ==
    IF EsEntero(x) /\ EsEntero(y) THEN Entero(x.ent * y.ent)
    ELSE DoblePor(Flotar(x), Flotar(y))

\* x / y, y # 0: always a float, the quotient rounded once
NumEntre(x, y) == DobleEntre(Flotar(x), Flotar(y))

\* -1, 0, 1 as x < y, x == y, x > y
NumCmp(x, y) ==
    IF EsEntero(x) /\ EsEntero(y)
    THEN (IF x.ent < y.ent THEN -1 ELSE IF x.ent = y.ent THEN 0 ELSE 1)
    ELSE DobleCmp(Flotar(x), Flotar(y))

NumMenorIgual(x, y) == NumCmp(x, y) <= 0

\* ------------------------------------------------- Actividad
\* faulty variant: the constructor accepts an empty interval (inicio = fin)
ActividadLanza_Estricto(inicio, fin) == inicio > fin

\* Actividad.__init__ raises ValueError
ActividadLanza(inicio, fin) == inicio >= fin

\* the object Actividad.__init__ builds when it does not raise
Actividad(inicio, fin) ==
    [inicio |-> inicio, fin |-> fin, duracion |-> fin - inicio]

\* Actividad.traslapa_con
traslapa_con(self, otra) == ~(self.fin <= otra.inicio \/ otra.fin <= self.inicio)

\* verificar_sin_traslape: no pair i < j of the list overlaps
verificar_sin_traslape(lista) ==
    \A i \in 1..Len(lista) : \A j \in (i+1)..Len(lista) :
        ~traslapa_con(lista[i], lista[j])

\* sorted(actividades, key=lambda x: x.fin): stable insertion by the key fin
RECURSIVE InsertarPorFin(_, _)
InsertarPorFin(x, s) ==
    IF s = <<>> THEN <<x>>
    ELSE IF Head(s).fin <= x.fin THEN <<Head(s)>> \o InsertarPorFin(x, Tail(s))
    ELSE <<x>> \o s

RECURSIVE OrdenarPorFinDesde(_, _)
OrdenarPorFinDesde(hecho, resto) ==
    IF resto = <<>> THEN hecho
    ELSE OrdenarPorFinDesde(InsertarPorFin(Head(resto), hecho), Tail(resto))

OrdenarPorFin(lista) == OrdenarPorFinDesde(<<>>, lista)

\* initial value of ultimo_fin
UltimoFinInicial == -1

\* faulty variant: the test compares the end of the activity, not its start
SeleccionPaso_CompararFin(sel, ufin, actividad) ==
    IF actividad.fin >= ufin
    THEN [seleccionadas |-> Append(sel, actividad), ultimo_fin |-> actividad.fin]
    ELSE [seleccionadas |-> sel, ultimo_fin |-> ufin]

\* faulty variant: ultimo_fin is set to the start of the selected activity
SeleccionPaso_UltimoInicio(sel, ufin, actividad) ==
    IF actividad.inicio >= ufin
    THEN [seleccionadas |-> Append(sel, actividad), ultimo_fin |-> actividad.inicio]
    ELSE [seleccionadas |-> sel, ultimo_fin |-> ufin]

\* body of the for loop of seleccion_actividades_voraz on one activity
SeleccionPaso(sel, ufin, actividad) ==
    IF actividad.inicio >= ufin
    THEN [seleccionadas |-> Append(sel, actividad), ultimo_fin |-> actividad.fin]
    ELSE [seleccionadas |-> sel, ultimo_fin |-> ufin]

\* ------------------------------------------------- actions: actividades
\* the driver constructs one more Actividad; the constructor returns
CrearActividad ==
    /\ programa = "actividades" /\ pc = "entrada"
    /\ Len(actividades) < MaxActs
    /\ \E inicio \in Tiempos, fin \in Tiempos :
        /\ ~ActividadLanza(inicio, fin)
        /\ llamada' = <<inicio, fin>>
        /\ actividades' = Append(actividades, Actividad(inicio, fin))
    /\ UNCHANGED <<programa, pc, excepcion, k, actividades_ordenadas,
                   seleccionadas, ultimo_fin, varsCambio, varsMochila>>

\* the driver constructs one more Actividad; the constructor raises and the
\* uncaught ValueError ends the program
CrearActividadFalla ==
    /\ programa = "actividades" /\ pc = "entrada"
    /\ Len(actividades) < MaxActs
    /\ \E inicio \in Tiempos, fin \in Tiempos :
        /\ ActividadLanza(inicio, fin)
        /\ llamada' = <<inicio, fin>>
    /\ pc' = "error"
    /\ excepcion' = "ValueError"
    /\ UNCHANGED <<programa, k, actividades, actividades_ordenadas,
                   seleccionadas, ultimo_fin, varsCambio, varsMochila>>

\* seleccion_actividades_voraz(actividades) with an empty list: return []
LlamarSeleccionVacia ==
    /\ programa = "actividades" /\ pc = "entrada"
    /\ actividades = <<>>
    /\ seleccionadas' = <<>>
    /\ pc' = "fin"
    /\ UNCHANGED <<programa, excepcion, k, llamada, actividades,
                   actividades_ordenadas, ultimo_fin, varsCambio, varsMochila>>

\* seleccion_actividades_voraz(actividades): sort, initialise the locals
LlamarSeleccion ==
    /\ programa = "actividades" /\ pc = "entrada"
    /\ actividades # <<>>
    /\ actividades_ordenadas' = OrdenarPorFin(actividades)
    /\ seleccionadas' = <<>>
    /\ ultimo_fin' = UltimoFinInicial
    /\ k' = 1
    /\ pc' = "bucle"
    /\ UNCHANGED <<programa, excepcion, llamada, actividades, varsCambio, varsMochila>>

\* one iteration of the for loop
IterarSeleccion ==
    /\ programa = "actividades" /\ pc = "bucle"
    /\ k <= Len(actividades_ordenadas)
    /\ LET r == SeleccionPaso(seleccionadas, ultimo_fin, actividades_ordenadas[k])
       IN /\ seleccionadas' = r.seleccionadas
          /\ ultimo_fin' = r.ultimo_fin
    /\ k' = k + 1
    /\ UNCHANGED <<programa, pc, excepcion, llamada, actividades,
                   actividades_ordenadas, varsCambio, varsMochila>>

\* the loop is exhausted: return seleccionadas
RetornarSeleccion ==
    /\ programa = "actividades" /\ pc = "bucle"
    /\ k > Len(actividades_ordenadas)
    /\ pc' = "fin"
    /\ UNCHANGED <<programa, excepcion, k, varsAct, varsCambio, varsMochila>>

\* the locals of the functions of the programs that do not run
ReposoActividades ==
    /\ llamada = <<>>
    /\ actividades = <<>>
    /\ actividades_ordenadas = <<>>
    /\ seleccionadas = <<>>
    /\ ultimo_fin = UltimoFinInicial

ReposoCambio ==
    /\ cantidad = 0
    /\ monedas = <<>>
    /\ monedas_ordenadas = <<>>
    /\ resultado = <<>>
    /\ cantidad_restante = 0

ReposoMochila ==
    /\ articulos = <<>>
    /\ capacidad = Entero(0)
    /\ articulos_ordenados = <<>>
    /\ mochila = <<>>
    /\ capacidad_restante = Entero(0)
    /\ valor_total = Cero

InitActividades ==
    /\ programa = "actividades"
    /\ pc = "entrada"
    /\ excepcion = ""
    /\ k = 1
    /\ ReposoActividades
    /\ ReposoCambio
    /\ ReposoMochila

NextActividades ==
    \/ CrearActividad
    \/ CrearActividadFalla
    \/ LlamarSeleccionVacia
    \/ LlamarSeleccion
    \/ IterarSeleccion
    \/ RetornarSeleccion

SpecActividades == InitActividades /\ [][NextActividades]_vars

\* ------------------------------------------------- dar_cambio_voraz
\* the default value of the parameter monedas
MonedasPorDefecto == <<25, 10, 5, 1>>

\* every ordering of a list without repetitions
Permutaciones(lista) ==
    LET n == Len(lista)
        biy == {p \in [1..n -> 1..n] : \A i, j \in 1..n : p[i] = p[j] => i = j}
    IN {[i \in 1..n |-> lista[p[i]]] : p \in biy}

\* every list of at most n elements of S
ListasHasta(S, n) == UNION {[1..m -> S] : m \in 0..n}

\* sorted(monedas, reverse=True): stable insertion, larger first
RECURSIVE InsertarDesc(_, _)
InsertarDesc(x, s) ==
    IF s = <<>> THEN <<x>>
    ELSE IF Head(s) >= x THEN <<Head(s)>> \o InsertarDesc(x, Tail(s))
    ELSE <<x>> \o s

RECURSIVE OrdenarDescDesde(_, _)
OrdenarDescDesde(hecho, resto) ==
    IF resto = <<>> THEN hecho
    ELSE OrdenarDescDesde(InsertarDesc(Head(resto), hecho), Tail(resto))

\* faulty variant: the denominations are used in the order given
OrdenarDesc_SinOrdenar(lista) == lista

OrdenarDesc(lista) == OrdenarDescDesde(<<>>, lista)

\* faulty variant: the remainder is reduced by one coin only
CambioPaso_RestaUna(res, restante, moneda) ==
    IF restante >= moneda
    THEN [resultado |-> (moneda :> (restante \div moneda)) @@ res,
          cantidad_restante |-> restante - moneda]
    ELSE [resultado |-> res, cantidad_restante |-> restante]

\* body of the for loop of dar_cambio_voraz on one denomination
CambioPaso(res, restante, moneda) ==
    IF restante >= moneda
    THEN [resultado |-> (moneda :> (restante \div moneda)) @@ res,
          cantidad_restante |-> restante % moneda]
    ELSE [resultado |-> res, cantidad_restante |-> restante]

\* sum(moneda * cantidad for moneda, cantidad in resultado.items()), the
\* verification of mostrar_cambio
suma_verificacion(res) ==
    SumaSobre([m \in DOMAIN res |-> m * res[m]], DOMAIN res)

\* total_monedas of mostrar_cambio: the counts that are > 0, added up
total_monedas(res) ==
    LET contadas == {m \in DOMAIN res : res[m] > 0}
    IN SumaSobre(res, contadas)

\* ------------------------------------------------- actions: cambio
\* dar_cambio_voraz(cantidad, monedas): sort, initialise the locals
LlamarCambio ==
    /\ programa = "cambio" /\ pc = "entrada"
    /\ monedas_ordenadas' = OrdenarDesc(monedas)
    /\ resultado' = <<>>
    /\ cantidad_restante' = cantidad
    /\ k' = 1
    /\ pc' = "bucle"
    /\ UNCHANGED <<programa, excepcion, cantidad, monedas, varsAct, varsMochila>>

\* one iteration of the for loop
IterarCambio ==
    /\ programa = "cambio" /\ pc = "bucle"
    /\ k <= Len(monedas_ordenadas)
    /\ LET r == CambioPaso(resultado, cantidad_restante, monedas_ordenadas[k])
       IN /\ resultado' = r.resultado
          /\ cantidad_restante' = r.cantidad_restante
    /\ k' = k + 1
    /\ UNCHANGED <<programa, pc, excepcion, cantidad, monedas,
                   monedas_ordenadas, varsAct, varsMochila>>

\* the loop is exhausted: return resultado
RetornarCambio ==
    /\ programa = "cambio" /\ pc = "bucle"
    /\ k > Len(monedas_ordenadas)
    /\ pc' = "fin"
    /\ UNCHANGED <<programa, excepcion, k, varsAct, varsCambio, varsMochila>>

\* the arguments of the call
EntradasMonedas ==
    Permutaciones(MonedasPorDefecto)
        \cup ListasHasta(1..MaxDenominacion, MaxMonedas)

InitCambio ==
    /\ programa = "cambio"
    /\ pc = "entrada"
    /\ excepcion = ""
    /\ k = 1
    /\ ReposoActividades
    /\ cantidad \in -1 .. MaxCantidad
    /\ monedas \in EntradasMonedas
    /\ monedas_ordenadas = <<>>
    /\ resultado = <<>>
    /\ cantidad_restante = 0
    /\ ReposoMochila

NextCambio ==
    \/ LlamarCambio
    \/ IterarCambio
    \/ RetornarCambio

SpecCambio == InitCambio /\ [][NextCambio]_vars

\* ------------------------------------------------- Articulo
\* Articulo.__init__
Articulo(peso, valor) ==
    [peso |-> peso, valor |-> valor,
     ratio |-> IF NumCmp(peso, Entero(0)) > 0 THEN NumEntre(valor, peso) ELSE Entero(0)]

\* sorted(articulos, key=lambda x: x.ratio, reverse=True): stable insertion,
\* larger ratio first
RECURSIVE InsertarPorRatio(_, _)
InsertarPorRatio(x, s) ==
    IF s = <<>> THEN <<x>>
    ELSE IF NumMenorIgual(x.ratio, Head(s).ratio)
         THEN <<Head(s)>> \o InsertarPorRatio(x, Tail(s))
         ELSE <<x>> \o s

RECURSIVE OrdenarPorRatioDesde(_, _)
OrdenarPorRatioDesde(hecho, resto) ==
    IF resto = <<>> THEN hecho
    ELSE OrdenarPorRatioDesde(InsertarPorRatio(Head(resto), hecho), Tail(resto))

OrdenarPorRatio(lista) == OrdenarPorRatioDesde(<<>>, lista)

\* body of the for loop of mochila_fraccionaria_voraz after the break test
MochilaPaso(moch, restante, total, articulo) ==
    IF NumMenorIgual(articulo.peso, restante)
    THEN [mochila |-> Append(moch, [articulo |-> articulo, fraccion |-> Uno]),
          valor_total |-> NumSuma(total, articulo.valor),
          capacidad_restante |-> NumResta(restante, articulo.peso)]
    ELSE LET fraccion == NumEntre(restante, articulo.peso)
         IN [mochila |-> Append(moch, [articulo |-> articulo, fraccion |-> fraccion]),
             valor_total |-> NumSuma(total, NumPor(articulo.valor, fraccion)),
             capacidad_restante |-> Entero(0)]

\* peso_total of mostrar_resultado_mochila: the floats articulo.peso * fraccion
\* added up from 0.0 in the order of the selection
RECURSIVE PesoTotalDesde(_, _, _)
PesoTotalDesde(moch, i, total) ==
    IF i > Len(moch) THEN total
    ELSE LET peso_usado == NumPor(moch[i].articulo.peso, moch[i].fraccion)
         IN PesoTotalDesde(moch, i + 1, NumSuma(total, peso_usado))

peso_total(moch) == PesoTotalDesde(moch, 1, Cero)

\* ------------------------------------------------- actions: mochila
\* mochila_fraccionaria_voraz(articulos, capacidad): sort, initialise the locals
LlamarMochila ==
    /\ programa = "mochila" /\ pc = "entrada"
    /\ articulos_ordenados' = OrdenarPorRatio(articulos)
    /\ mochila' = <<>>
    /\ capacidad_restante' = capacidad
    /\ valor_total' = Cero
    /\ k' = 1
    /\ pc' = "bucle"
    /\ UNCHANGED <<programa, excepcion, articulos, capacidad, varsAct, varsCambio>>

\* one iteration of the for loop that does not break
IterarMochila ==
    /\ programa = "mochila" /\ pc = "bucle"
    /\ k <= Len(articulos_ordenados)
    /\ ~NumMenorIgual(capacidad_restante, Entero(0))
    /\ LET r == MochilaPaso(mochila, capacidad_restante, valor_total,
                            articulos_ordenados[k])
       IN /\ mochila' = r.mochila
          /\ valor_total' = r.valor_total
          /\ capacidad_restante' = r.capacidad_restante
    /\ k' = k + 1
    /\ UNCHANGED <<programa, pc, excepcion, articulos, capacidad,
                   articulos_ordenados, varsAct, varsCambio>>

\* capacidad_restante <= 0: break, then return
RomperMochila ==
    /\ programa = "mochila" /\ pc = "bucle"
    /\ k <= Len(articulos_ordenados)
    /\ NumMenorIgual(capacidad_restante, Entero(0))
    /\ pc' = "fin"
    /\ UNCHANGED <<programa, excepcion, k, varsAct, varsCambio, varsMochila>>

\* the loop is exhausted: return mochila, valor_total
RetornarMochila ==
    /\ programa = "mochila" /\ pc = "bucle"
    /\ k > Len(articulos_ordenados)
    /\ pc' = "fin"
    /\ UNCHANGED <<programa, excepcion, k, varsAct, varsCambio, varsMochila>>

\* the float written n / DivisorDecimal in decimal (0.1, 0.2, ...)
Decimal(n) == NumEntre(Entero(n), Entero(DivisorDecimal))

\* 5e-324, the smallest float above 0.0
MinimoPositivo == [clase |-> "finito", neg |-> FALSE, man |-> <<1>>, exp |-> ExpMin]

\* the arguments of the calls: ints and floats
Pesos ==
    {Entero(p) : p \in (1..MaxPeso) \cup {PesoGrande}}
        \cup {Decimal(p) : p \in 1..MaxPeso}
        \cup {Flotar(Entero(PesoFlotante))}

Valores ==
    {Entero(v) : v \in 0..MaxValor}
        \cup {Flotar(Entero(v)) : v \in 1..MaxValor}
        \cup {Decimal(v) : v \in 1..MaxValor}

Capacidades ==
    {Entero(c) : c \in -1..MaxCapacidad}
        \cup {Decimal(c) : c \in 1..MaxCapacidad}
        \cup {MinimoPositivo}

EntradasArticulos ==
    ListasHasta({Articulo(p, v) : p \in Pesos, v \in Valores}, MaxArts)

InitMochila ==
    /\ programa = "mochila"
    /\ pc = "entrada"
    /\ excepcion = ""
    /\ k = 1
    /\ ReposoActividades
    /\ ReposoCambio
    /\ articulos \in EntradasArticulos
    /\ capacidad \in Capacidades
    /\ articulos_ordenados = <<>>
    /\ mochila = <<>>
    /\ capacidad_restante = Entero(0)
    /\ valor_total = Cero

NextMochila ==
    \/ LlamarMochila
    \/ IterarMochila
    \/ RomperMochila
    \/ RetornarMochila

SpecMochila == InitMochila /\ [][NextMochila]_vars

\* ------------------------------------------------- the three programs
Init == InitActividades \/ InitCambio \/ InitMochila

Next == NextActividades \/ NextCambio \/ NextMochila

Spec == Init /\ [][Next]_vars

\* =========================================================== properties
FinActividades == programa = "actividades" /\ pc = "fin"
FinCambio == programa = "cambio" /\ pc = "fin"
FinMochila == programa = "mochila" /\ pc = "fin"

\* ---- reference: the largest set of pairwise non-overlapping activities
Compatibles(lista, S) ==
    \A i \in S : \A j \in S : i # j => ~traslapa_con(lista[i], lista[j])

MaximoCompatible(lista) ==
    LET tallas == {Cardinality(S) : S \in {T \in SUBSET (1..Len(lista)) :
                                             Compatibles(lista, T)}}
    IN CHOOSE m \in tallas : \A n \in tallas : n <= m

\* C1: for every list of valid activities (any integer times), the selection
\* returned by seleccion_actividades_voraz has the maximum size of a pairwise
\* non-overlapping subset of the input; an empty input returns the empty list
\* and an input of one activity returns that activity.
C1_SeleccionMaxima ==
    FinActividades =>
        /\ Len(seleccionadas) = MaximoCompatible(actividades)
        /\ (Len(actividades) <= 1 => seleccionadas = actividades)

\* C2: no two distinct activities of the returned selection overlap (touching
\* endpoints do not overlap), and verificar_sin_traslape of the result is True.
C2_SinTraslape ==
    FinActividades =>
        /\ \A i, j \in 1..Len(seleccionadas) :
              i # j => (seleccionadas[i].fin <= seleccionadas[j].inicio
                        \/ seleccionadas[j].fin <= seleccionadas[i].inicio)
        /\ verificar_sin_traslape(seleccionadas)

\* C2 witness: a returned selection of several activities, two of them
\* touching, out of an input from which an activity was left out.
C2_Testigo ==
    /\ FinActividades
    /\ Len(seleccionadas) >= 2
    /\ seleccionadas[1].fin = seleccionadas[2].inicio
    /\ Len(seleccionadas) < Len(actividades)

\* ---- sums over the result of dar_cambio_voraz
Minimo(S) == CHOOSE m \in S : \A n \in S : m <= n

\* C3: for an amount >= 0 and a non-empty list of positive denominations whose
\* smallest element is 1, the returned mapping satisfies
\* sum(denomination * count) = amount.
C3_SumaExacta ==
    (/\ FinCambio
     /\ cantidad >= 0
     /\ monedas # <<>>
     /\ Minimo({monedas[i] : i \in DOMAIN monedas}) = 1)
        => suma_verificacion(resultado) = cantidad

\* C3 witness: a returned mapping that uses several denominations of a list
\* with a repeated denomination.
C3_Testigo ==
    /\ FinCambio
    /\ cantidad > 0
    /\ \E i \in DOMAIN monedas : monedas[i] = 1
    /\ \E i, j \in DOMAIN monedas : i # j /\ monedas[i] = monedas[j]
    /\ Cardinality(DOMAIN resultado) >= 2

\* ---- reference: the fewest coins of the given denominations that sum to c,
\* by exhaustion of every count of every denomination
RECURSIVE TotalesDesde(_, _, _)
TotalesDesde(lista, i, c) ==
    IF i > Len(lista) THEN (IF c = 0 THEN {0} ELSE {})
    ELSE UNION {{q + t : t \in TotalesDesde(lista, i + 1, c - q * lista[i])} :
                  q \in 0..(c \div lista[i])}

MinimoMonedas(lista, c) == Minimo(TotalesDesde(lista, 1, c))

\* C4: for the denominations {1, 5, 10, 25} and every amount of the range
\* 0 .. MaxCantidad, the number of coins returned is the minimum number of
\* coins of those denominations that sum to the amount.
C4_MonedasMinimas ==
    (/\ FinCambio
     /\ cantidad \in 0..MaxCantidad
     /\ monedas \in Permutaciones(MonedasPorDefecto))
        => total_monedas(resultado) = MinimoMonedas(MonedasPorDefecto, cantidad)

\* C4 witness: an amount for which taking the denominations in another order
\* would need more coins (30 = 25 + 5), given in an order that is not sorted.
C4_Testigo ==
    /\ FinCambio
    /\ cantidad = 30
    /\ monedas = <<1, 10, 5, 25>>
    /\ total_monedas(resultado) = 2

\* ---- exact numbers: num / den * 2^exp with naturals num, den of any size,
\* the arithmetic of the reference optimum below (the program itself computes
\* in floats)
ExactoDe(x) ==
    IF EsEntero(x) THEN [num |-> NatDeEntero(x.ent), den |-> <<1>>, exp |-> 0]
    ELSE [num |-> x.man, den |-> <<1>>, exp |-> x.exp]

\* the numerators of a and b over the common exponent and denominator
ExactoComun(a, b) ==
    LET e == IF a.exp < b.exp THEN a.exp ELSE b.exp
    IN [a |-> NatPor(NatIzq(a.num, a.exp - e), b.den),
        b |-> NatPor(NatIzq(b.num, b.exp - e), a.den),
        den |-> NatPor(a.den, b.den), exp |-> e]

\* a > 0 lies between 2^(ExactoAlto(a) - 1) and 2^(ExactoAlto(a) + 1)
ExactoAlto(a) == NatBits(a.num) - NatBits(a.den) + a.exp

\* -1, 0, 1 as a < b, a = b, a > b
ExactoCmp(a, b) ==
    IF a.num = <<>> THEN (IF b.num = <<>> THEN 0 ELSE -1)
    ELSE IF b.num = <<>> THEN 1
    ELSE IF ExactoAlto(a) >= ExactoAlto(b) + 2 THEN 1
    ELSE IF ExactoAlto(b) >= ExactoAlto(a) + 2 THEN -1
    ELSE LET c == ExactoComun(a, b) IN NatCmp(c.a, c.b)

ExactoSuma(a, b) ==
    IF a.num = <<>> THEN b
    ELSE IF b.num = <<>> THEN a
    ELSE LET c == ExactoComun(a, b)
         IN [num |-> NatSuma(c.a, c.b), den |-> c.den, exp |-> c.exp]

\* a - b for a >= b
ExactoResta(a, b) ==
    IF b.num = <<>> THEN a
    ELSE LET c == ExactoComun(a, b)
         IN [num |-> NatResta(c.a, c.b), den |-> c.den, exp |-> c.exp]

ExactoPor(a, b) ==
    [num |-> NatPor(a.num, b.num), den |-> NatPor(a.den, b.den), exp |-> a.exp + b.exp]

\* a / b for b > 0
ExactoEntre(a, b) ==
    [num |-> NatPor(a.num, b.den), den |-> NatPor(a.den, b.num), exp |-> a.exp - b.exp]

RECURSIVE ExactoSumaSobre(_, _)
ExactoSumaSobre(f, S) ==
    IF S = {} THEN ExactoDe(Entero(0))
    ELSE LET x == CHOOSE y \in S : TRUE
         IN ExactoSuma(f[x], ExactoSumaSobre(f, S \ {x}))

\* the float nearest to a
DobleMasCercano(a) ==
    IF a.num = <<>> THEN Cero
    ELSE LET falta == BitsMantisa + 2 + NatBits(a.den) - NatBits(a.num)
             escala == IF falta > 0 THEN falta ELSE 0
             d == NatEntre(NatIzq(a.num, escala), a.den)
         IN Redondear(FALSE, d.q, a.exp - escala, d.r # <<>>)

\* ---- reference: the optimum of the fractional knapsack linear program.
\* The maximum of a linear program is reached at a vertex of the feasible
\* polytope; a vertex has at most one fractional coordinate, and if it has one
\* the capacity is used up.  Candidatos enumerates a superset of the vertices
\* made of feasible points only.
PesoDe(lista, S) == ExactoSumaSobre([i \in 1..Len(lista) |-> ExactoDe(lista[i].peso)], S)
ValorDe(lista, S) == ExactoSumaSobre([i \in 1..Len(lista) |-> ExactoDe(lista[i].valor)], S)

Candidatos(lista, cap) ==
    LET n == Len(lista)
        tope == ExactoDe(cap)
        enteros == {S \in SUBSET (1..n) : ExactoCmp(PesoDe(lista, S), tope) <= 0}
        libre(S) == ExactoResta(tope, PesoDe(lista, S))
    IN {ValorDe(lista, S) : S \in enteros}
       \cup UNION {{ExactoSuma(ValorDe(lista, S),
                               ExactoEntre(ExactoPor(ExactoDe(lista[j].valor), libre(S)),
                                           ExactoDe(lista[j].peso))) :
                       j \in {i \in (1..n) \ S :
                                ExactoCmp(libre(S), ExactoDe(lista[i].peso)) < 0}} :
                   S \in enteros}

\* the maximum of the linear program, an exact number
Optimo(lista, cap) ==
    CHOOSE c \in Candidatos(lista, cap) :
        \A d \in Candidatos(lista, cap) : ExactoCmp(d, c) <= 0

\* the preconditions of the knapsack claims on the arguments of the call
PesosPositivos == \A i \in DOMAIN articulos : NumCmp(articulos[i].peso, Entero(0)) > 0
ValoresNoNegativos == \A i \in DOMAIN articulos : NumCmp(articulos[i].valor, Entero(0)) >= 0
CapacidadNoNegativa == NumCmp(capacidad, Entero(0)) >= 0

\* C5: for articles of weight > 0 and value >= 0 and a capacity >= 0, the
\* total value returned is the maximum of sum(value_i * f_i) over the fraction
\* assignments f in [0,1] with sum(weight_i * f_i) <= capacity.  The returned
\* value is a float: "is the maximum" is read as "is the float nearest to the
\* maximum", the weakest reading of the equality.
C5_ValorOptimo ==
    (FinMochila /\ PesosPositivos /\ ValoresNoNegativos /\ CapacidadNoNegativa) =>
        DobleCmp(valor_total, DobleMasCercano(Optimo(articulos, capacidad))) = 0

\* C6: for articles of weight > 0 and a capacity >= 0, the returned selection
\* satisfies sum(peso * fraccion) <= capacity, with equality whenever the total
\* weight of the input exceeds the capacity.  The sum is the one the program
\* computes (peso_total).
C6_PesoDentroDeCapacidad ==
    (FinMochila /\ PesosPositivos /\ CapacidadNoNegativa) =>
        /\ NumCmp(peso_total(mochila), capacidad) <= 0
        /\ (ExactoCmp(PesoDe(articulos, DOMAIN articulos), ExactoDe(capacidad)) > 0
                => NumCmp(peso_total(mochila), capacidad) = 0)

\* C7: every fraction of the returned selection lies in (0, 1], at most one
\* entry has a fraction < 1, and such an entry is the last of the selection.
C7_FraccionUnicaAlFinal ==
    FinMochila =>
        /\ \A i \in DOMAIN mochila :
              /\ NumCmp(Cero, mochila[i].fraccion) < 0
              /\ NumCmp(mochila[i].fraccion, Uno) <= 0
        /\ Cardinality({i \in DOMAIN mochila :
                          NumCmp(mochila[i].fraccion, Uno) < 0}) <= 1
        /\ \A i \in DOMAIN mochila :
              NumCmp(mochila[i].fraccion, Uno) < 0 => i = Len(mochila)

\* state part of C8: what exists after the constructor calls made so far
C8_Estado ==
    programa = "actividades" =>
        /\ \A i \in DOMAIN actividades :
              /\ actividades[i].inicio < actividades[i].fin
              /\ actividades[i].duracion = actividades[i].fin - actividades[i].inicio
        /\ llamada # <<>> =>
              IF llamada[1] >= llamada[2]
              THEN pc = "error" /\ excepcion = "ValueError"
              ELSE /\ excepcion = ""
                   /\ actividades # <<>>
                   /\ actividades[Len(actividades)] =
                        [inicio |-> llamada[1], fin |-> llamada[2],
                         duracion |-> llamada[2] - llamada[1]]

\* step part of C8: a failed call adds nothing, a successful call adds one
C8_Paso ==
    (programa = "actividades" /\ pc = "entrada") =>
        /\ excepcion' = "ValueError" => actividades' = actividades
        /\ (pc' = "entrada" /\ llamada'[1] < llamada'[2])
              => Len(actividades') = Len(actividades) + 1

\* C8: constructing an Actividad with inicio >= fin fails with an error and
\* yields no activity; with inicio < fin it succeeds and sets
\* duracion = fin - inicio; every activity that exists has inicio < fin.
C8_Constructor == [](C8_Estado) /\ [][C8_Paso]_vars

\* C8 witness: a constructor call with inicio >= fin has failed after another
\* call succeeded.
C8_Testigo ==
    /\ programa = "actividades"
    /\ pc = "error"
    /\ llamada[1] >= llamada[2]
    /\ Len(actividades) >= 1

\* the arguments C9 is about
ArgumentoInvalido ==
    \/ programa = "cambio" /\ (cantidad < 0 \/ monedas = <<>>)
    \/ programa = "mochila" /\ NumCmp(capacidad, Entero(0)) < 0

\* C9: dar_cambio_voraz fails with an invalid-argument error, rather than
\* returning a mapping, for a negative amount or an empty denomination list;
\* mochila_fraccionaria_voraz fails with an invalid-argument error, rather than
\* returning a selection, for a negative capacity.
C9_ArgumentosRechazados ==
    ArgumentoInvalido => ~(pc = "fin" /\ excepcion = "")

\* state part of C10: the order of the selection built so far
C10_Estado ==
    (programa = "actividades" /\ pc \in {"bucle", "fin"}) =>
        /\ \A i \in 1..(Len(seleccionadas) - 1) :
              /\ seleccionadas[i].fin <= seleccionadas[i+1].inicio
              /\ seleccionadas[i+1].inicio < seleccionadas[i+1].fin
        /\ \A i \in DOMAIN seleccionadas :
              seleccionadas[i].fin <= seleccionadas[Len(seleccionadas)].fin
        /\ seleccionadas # <<>> =>
              ultimo_fin = seleccionadas[Len(seleccionadas)].fin

\* step part of C10: what one iteration of the loop may change
C10_Paso ==
    (programa = "actividades" /\ pc = "bucle") =>
        /\ ultimo_fin' >= ultimo_fin
        /\ \/ seleccionadas' = seleccionadas
           \/ /\ seleccionadas' = Append(seleccionadas, actividades_ordenadas[k])
              /\ ultimo_fin' = actividades_ordenadas[k].fin

\* C10: the returned list is ordered by increasing end time: consecutive
\* entries satisfy r[i].fin <= r[i+1].inicio < r[i+1].fin; this is the order
\* in which the loop committed them: the activity appended last has the
\* largest fin selected so far, and ultimo_fin never decreases.
C10_OrdenPorFin == [](C10_Estado) /\ [][C10_Paso]_vars

\* C10 witness: a returned selection of three activities out of an input given
\* in another order.
C10_Testigo ==
    /\ FinActividades
    /\ Len(seleccionadas) = 3
    /\ seleccionadas # actividades

=============================================================================
